---- MODULE Spec2Model ----
(***************************************************************************)
(* Model of src/migrate/id_handler.py: the Snowflake identifier generator  *)
(* IdWorker (constructor, _time_gen, _till_next_millis, _next_id).         *)
(*                                                                         *)
(* Time is in milliseconds.  The source's epoch constant 1546272000000     *)
(* does not fit the model checker's 32-bit integers, so the model places   *)
(* twepoch at a small instant and lets the wall clock range over           *)
(* twepoch .. twepoch + MaxClock.  The algorithm only compares timestamps  *)
(* with each other and subtracts twepoch from them, so the translation is  *)
(* exact up to that shift of origin; last_timestamp still starts at -1.    *)
(*                                                                         *)
(* One call of _next_id is a chain of steps, one per source statement, so  *)
(* that the wall clock can move while a call is in the spin-wait and so    *)
(* that calls of several threads can interleave between statements.        *)
(***************************************************************************)
EXTENDS Integers, Sequences, FiniteSets, TLC

(***************************************************************************)
(* Bounds of the model.                                                    *)
(***************************************************************************)
\* the wall clock ranges over twepoch .. twepoch + MaxClock
MaxClock == 2
\* calls of _next_id that get past the clock check, over all instances
MaxCalls == 2
\* how many times one wall clock is set back
MaxRegress == 1

Insts == {1, 2}
Threads == {1, 2}

(***************************************************************************)
(* Python's integer operators, on the values the program applies them to.  *)
(***************************************************************************)
\* a << n
Shl(a, n) == a * (2 ^ n)

\* a >> n (floor, as in Python)
Shr(a, n) == a \div (2 ^ n)

\* -1 ^ a: exclusive-or with all ones is bitwise complement
XorAllOnes(a) == (-a) - 1

RECURSIVE BitOr(_, _)
\* a | b for a, b >= 0
BitOr(a, b) ==
    IF a = 0 THEN b
    ELSE IF b = 0 THEN a
    ELSE 2 * BitOr(a \div 2, b \div 2)
         + (IF a % 2 = 1 \/ b % 2 = 1 THEN 1 ELSE 0)

RECURSIVE BitAnd(_, _)
\* a & b for a, b >= 0
BitAnd(a, b) ==
    IF a = 0 \/ b = 0 THEN 0
    ELSE 2 * BitAnd(a \div 2, b \div 2)
         + (IF a % 2 = 1 /\ b % 2 = 1 THEN 1 ELSE 0)

(***************************************************************************)
(* Constants set by IdWorker.__init__.                                     *)
(***************************************************************************)
\* 2019-01-01 in the source (1546272000000); origin of the model's clock
twepoch == 8

worker_id_bits == 5
data_center_id_bits == 5
sequence_bits == 12

max_worker_id == XorAllOnes(Shl(-1, worker_id_bits))
max_data_center_id == XorAllOnes(Shl(-1, data_center_id_bits))

\* mutant: the worker field starts one bit too low
worker_id_shift_Low == sequence_bits - 1

worker_id_shift == sequence_bits

\* mutant: the datacenter field is put on top of the worker field
data_center_id_shift_Same == sequence_bits

data_center_id_shift == sequence_bits + worker_id_bits

\* mutant: the datacenter bits are left out of the timestamp shift
timestamp_left_shift_Short == sequence_bits + worker_id_bits

timestamp_left_shift == sequence_bits + worker_id_bits + data_center_id_bits

\* mutant: the mask is one bit too wide
sequence_mask_Wide == XorAllOnes(Shl(-1, sequence_bits + 1))

sequence_mask == XorAllOnes(Shl(-1, sequence_bits))

(***************************************************************************)
(* The conditions and expressions of the source, one operator each.        *)
(***************************************************************************)
\* mutant: the largest worker id is rejected
BadWorkerId_Strict(w) == w >= max_worker_id \/ w < 0

\* line 45: worker_id > max_worker_id or worker_id < 0
BadWorkerId(w) == w > max_worker_id \/ w < 0

\* line 48: data_center_id > max_data_center_id or data_center_id < 0
BadDataCenterId(d) == d > max_data_center_id \/ d < 0

\* line 62: the loop condition of _till_next_millis
TillLoops(last, ts) == last <= ts

\* mutant: the check also rejects a call in the millisecond of the last one
ClockMovedBackwards_Strict(last, ts) == last >= ts

\* mutant: the check tolerates a clock one millisecond behind
ClockMovedBackwards_Lax(last, ts) == last > ts + 1

\* line 70: the clock check of _next_id
ClockMovedBackwards(last, ts) == last > ts

\* mutant: the comparison of line 70 repeated in place of the equality
SameMillis_Never(last, ts) == last > ts

\* line 75
SameMillis(last, ts) == last = ts

\* mutant: the increment is lost
NextSequence_Stuck(seq) == BitAnd(seq, sequence_mask)

\* line 76: (sequence + 1) & sequence_mask
NextSequence(seq) == BitAnd(seq + 1, sequence_mask)

\* mutant: the epoch is not subtracted from the timestamp
NewId_NoEpoch(ts, dc, w, seq) ==
    BitOr(BitOr(BitOr(Shl(ts, timestamp_left_shift),
                      Shl(dc, data_center_id_shift)),
                Shl(w, worker_id_shift)),
          seq)

\* lines 84-86: the packed identifier
NewId(ts, dc, w, seq) ==
    BitOr(BitOr(BitOr(Shl(ts - twepoch, timestamp_left_shift),
                      Shl(dc, data_center_id_shift)),
                Shl(w, worker_id_shift)),
          seq)

(***************************************************************************)
(* State.                                                                  *)
(***************************************************************************)
VARIABLES
    \* per generator instance
    status,          \* "absent" | "none" (not yet constructed) | "ok" | "InputError"
    args,            \* <<worker_id, data_center_id>> the host passes to __init__
    worker_id,
    data_center_id,
    sequence,
    last_timestamp,
    ids_generated,
    clock,           \* what _time_gen() returns on the instance's host right now
    \* per thread
    pc,              \* "off" | "idle" | the line of _next_id the thread is at
    obj,             \* the instance whose _next_id the thread is running
    timestamp,       \* local of _next_id
    till_last,       \* parameter last_timestamp of _till_next_millis
    till_timestamp,  \* local timestamp of _till_next_millis
    new_id,          \* local of _next_id
    result,          \* outcome of the thread's latest call
    got,             \* what the thread's latest accessor call returned
    \* history, read by the properties only
    regs,            \* per instance: how often its clock was set back
    returned,        \* per instance: the identifiers returned, in order
    burst,           \* per instance: the opening burst of calls (see Burst)
    overlapped,      \* per instance: a call began while another was running
    entry            \* per thread: what its latest call saw on entry

idVars == <<status, args, worker_id, data_center_id>>
genVars == <<sequence, last_timestamp, ids_generated>>
clockVars == <<clock, regs>>
thrVars == <<pc, obj, timestamp, till_last, till_timestamp, new_id, result,
             got>>
histVars == <<returned, burst, overlapped, entry>>
vars == <<idVars, genVars, clockVars, thrVars, histVars>>

\* values the host may pass as worker_id / data_center_id
IdInputs == {-1, 0, max_worker_id, max_worker_id + 1}

NoEntry ==
    [called |-> FALSE, now |-> 0, last |-> 0, seq |-> 0, gen |-> 0, nret |-> 0,
     regs |-> 0, afterFail |-> FALSE, blast |-> 0, bseq |-> 0, bgen |-> 0]

NoBurst == [n |-> 0, ts |-> 0, regs |-> 0]

NoGot == [op |-> "none", i |-> 0, val |-> 0]

InitWith(insts, thrs, inputs) ==
    /\ status = [i \in Insts |-> IF i \in insts THEN "none" ELSE "absent"]
    /\ args \in [Insts -> inputs \X inputs]
    /\ \A i \in Insts \ insts : args[i] = <<0, 0>>
    /\ worker_id = [i \in Insts |-> 0]
    /\ data_center_id = [i \in Insts |-> 0]
    /\ sequence = [i \in Insts |-> 0]
    /\ last_timestamp = [i \in Insts |-> 0]
    /\ ids_generated = [i \in Insts |-> 0]
    /\ clock = [i \in Insts |-> twepoch]
    /\ pc = [t \in Threads |-> IF t \in thrs THEN "idle" ELSE "off"]
    /\ obj = [t \in Threads |-> 1]
    /\ timestamp = [t \in Threads |-> 0]
    /\ till_last = [t \in Threads |-> 0]
    /\ till_timestamp = [t \in Threads |-> 0]
    /\ new_id = [t \in Threads |-> 0]
    /\ result = [t \in Threads |-> "none"]
    /\ got = [t \in Threads |-> NoGot]
    /\ regs = [i \in Insts |-> 0]
    /\ returned = [i \in Insts |-> <<>>]
    /\ burst = [i \in Insts |-> NoBurst]
    /\ overlapped = [i \in Insts |-> FALSE]
    /\ entry = [t \in Threads |-> NoEntry]

\* one generator, one thread: the single-threaded event loop of the source
Init == InitWith({1}, {1}, IdInputs)

(***************************************************************************)
(* IdWorker.__init__, lines 17-55.                                         *)
(***************************************************************************)
New(i) ==
    /\ status[i] = "none"
    /\ worker_id' = [worker_id EXCEPT ![i] = args[i][1]]
    /\ data_center_id' = [data_center_id EXCEPT ![i] = args[i][2]]
    /\ ids_generated' = [ids_generated EXCEPT ![i] = 0]
    /\ sequence' = [sequence EXCEPT ![i] = 0]
    /\ last_timestamp' = [last_timestamp EXCEPT ![i] = -1]
    /\ status' = [status EXCEPT ![i] =
            IF BadWorkerId(args[i][1]) THEN "InputError"
            ELSE IF BadDataCenterId(args[i][2]) THEN "InputError"
            ELSE "ok"]
    /\ UNCHANGED <<args, clockVars, thrVars, histVars>>

(***************************************************************************)
(* The wall clock behind _time_gen, lines 57-58.                           *)
(***************************************************************************)
ClockAdvance(i) ==
    /\ status[i] = "ok"
    /\ clock[i] < twepoch + MaxClock
    /\ clock' = [clock EXCEPT ![i] = clock[i] + 1]
    /\ UNCHANGED <<regs, idVars, genVars, thrVars, histVars>>

ClockRegress(i) ==
    /\ status[i] = "ok"
    /\ regs[i] < MaxRegress
    /\ \E c \in twepoch .. clock[i] - 1 :
          clock' = [clock EXCEPT ![i] = c]
    /\ regs' = [regs EXCEPT ![i] = regs[i] + 1]
    /\ UNCHANGED <<idVars, genVars, thrVars, histVars>>

(***************************************************************************)
(* IdWorker._next_id, lines 67-88, statement by statement.                 *)
(***************************************************************************)
InFlight(i) == {t \in Threads : pc[t] \notin {"off", "idle"} /\ obj[t] = i}

\* calls that got past the clock check, over all instances
Started ==
    LET n1 == Len(returned[1]) + Cardinality(InFlight(1))
        n2 == Len(returned[2]) + Cardinality(InFlight(2))
    IN n1 + n2

\* line 68: timestamp = self._time_gen()
Call(t, i) ==
    /\ pc[t] = "idle"
    /\ status[i] = "ok"
    /\ Started < MaxCalls
    /\ obj' = [obj EXCEPT ![t] = i]
    /\ timestamp' = [timestamp EXCEPT ![t] = clock[i]]
    /\ pc' = [pc EXCEPT ![t] = "L70"]
    /\ result' = [result EXCEPT ![t] = "running"]
    /\ entry' = [entry EXCEPT ![t] =
            LET fail == result[t] = "InvalidSystemClock" /\ obj[t] = i
            IN [called |-> TRUE, now |-> clock[i],
                last |-> last_timestamp[i], seq |-> sequence[i],
                gen |-> ids_generated[i], nret |-> Len(returned[i]),
                regs |-> regs[i], afterFail |-> fail,
                blast |-> IF fail THEN entry[t].blast ELSE last_timestamp[i],
                bseq |-> IF fail THEN entry[t].bseq ELSE sequence[i],
                bgen |-> IF fail THEN entry[t].bgen ELSE ids_generated[i]]]
    /\ overlapped' = [overlapped EXCEPT ![i] = overlapped[i] \/ InFlight(i) # {}]
    /\ UNCHANGED <<idVars, genVars, clockVars, till_last, till_timestamp,
                   new_id, returned, burst, got>>

\* lines 70-73: raise InvalidSystemClock
CheckClock(t) ==
    /\ pc[t] = "L70"
    /\ IF ClockMovedBackwards(last_timestamp[obj[t]], timestamp[t])
       THEN /\ pc' = [pc EXCEPT ![t] = "idle"]
            /\ result' = [result EXCEPT ![t] = "InvalidSystemClock"]
       ELSE /\ pc' = [pc EXCEPT ![t] = "L75"]
            /\ UNCHANGED result
    /\ UNCHANGED <<idVars, genVars, clockVars, obj, timestamp, till_last,
                   till_timestamp, new_id, histVars, got>>

\* line 75: if self.last_timestamp == timestamp
TestSameMillis(t) ==
    /\ pc[t] = "L75"
    /\ pc' = [pc EXCEPT ![t] =
            IF SameMillis(last_timestamp[obj[t]], timestamp[t])
            THEN "L76" ELSE "L80"]
    /\ UNCHANGED <<idVars, genVars, clockVars, obj, timestamp, till_last,
                   till_timestamp, new_id, result, histVars, got>>

\* line 76: self.sequence = (self.sequence + 1) & self.sequence_mask
IncrementSequence(t) ==
    /\ pc[t] = "L76"
    /\ sequence' = [sequence EXCEPT ![obj[t]] = NextSequence(sequence[obj[t]])]
    /\ pc' = [pc EXCEPT ![t] = "L77"]
    /\ UNCHANGED <<idVars, last_timestamp, ids_generated, clockVars, obj,
                   timestamp, till_last, till_timestamp, new_id, result,
                   histVars, got>>

\* lines 77-78 and 61: if self.sequence == 0, enter _till_next_millis and
\* take its first clock reading
TestWrap(t) ==
    /\ pc[t] = "L77"
    /\ IF sequence[obj[t]] = 0
       THEN /\ till_last' = [till_last EXCEPT ![t] = last_timestamp[obj[t]]]
            /\ till_timestamp' = [till_timestamp EXCEPT ![t] = clock[obj[t]]]
            /\ pc' = [pc EXCEPT ![t] = "L62"]
       ELSE /\ pc' = [pc EXCEPT ![t] = "L82"]
            /\ UNCHANGED <<till_last, till_timestamp>>
    /\ UNCHANGED <<idVars, genVars, clockVars, obj, timestamp, new_id, result,
                   histVars, got>>

\* lines 62-63: one turn of the loop of _till_next_millis
TillSpin(t) ==
    /\ pc[t] = "L62"
    /\ TillLoops(till_last[t], till_timestamp[t])
    /\ till_timestamp' = [till_timestamp EXCEPT ![t] = clock[obj[t]]]
    /\ UNCHANGED <<idVars, genVars, clockVars, pc, obj, timestamp, till_last,
                   new_id, result, histVars, got>>

\* lines 62, 65 and 78: the loop ends, timestamp = the value returned
TillReturn(t) ==
    /\ pc[t] = "L62"
    /\ ~TillLoops(till_last[t], till_timestamp[t])
    /\ timestamp' = [timestamp EXCEPT ![t] = till_timestamp[t]]
    /\ pc' = [pc EXCEPT ![t] = "L82"]
    /\ UNCHANGED <<idVars, genVars, clockVars, obj, till_last, till_timestamp,
                   new_id, result, histVars, got>>

\* line 80: self.sequence = 0
ResetSequence(t) ==
    /\ pc[t] = "L80"
    /\ sequence' = [sequence EXCEPT ![obj[t]] = 0]
    /\ pc' = [pc EXCEPT ![t] = "L82"]
    /\ UNCHANGED <<idVars, last_timestamp, ids_generated, clockVars, obj,
                   timestamp, till_last, till_timestamp, new_id, result,
                   histVars, got>>

\* line 82: self.last_timestamp = timestamp
StoreTimestamp(t) ==
    /\ pc[t] = "L82"
    /\ last_timestamp' = [last_timestamp EXCEPT ![obj[t]] = timestamp[t]]
    /\ pc' = [pc EXCEPT ![t] = "L84"]
    /\ UNCHANGED <<idVars, sequence, ids_generated, clockVars, obj, timestamp,
                   till_last, till_timestamp, new_id, result, histVars, got>>

\* lines 84-86: new_id = ...
Pack(t) ==
    /\ pc[t] = "L84"
    /\ new_id' = [new_id EXCEPT ![t] =
            NewId(timestamp[t], data_center_id[obj[t]], worker_id[obj[t]],
                  sequence[obj[t]])]
    /\ pc' = [pc EXCEPT ![t] = "L87"]
    /\ UNCHANGED <<idVars, genVars, clockVars, obj, timestamp, till_last,
                   till_timestamp, result, histVars, got>>

\* mutant: the identifier is returned without being counted
Return_NoCount(t) ==
    /\ pc[t] = "L87"
    /\ returned' = [returned EXCEPT ![obj[t]] =
            Append(returned[obj[t]],
                   [id |-> new_id[t], t |-> t, r0 |-> entry[t].regs,
                    r1 |-> regs[obj[t]], ts |-> timestamp[t],
                    last |-> last_timestamp[obj[t]],
                    seq |-> sequence[obj[t]]])]
    /\ result' = [result EXCEPT ![t] = "id"]
    /\ pc' = [pc EXCEPT ![t] = "idle"]
    /\ UNCHANGED <<idVars, genVars, clockVars, obj, timestamp,
                   till_last, till_timestamp, new_id, burst, overlapped, entry, got>>

\* lines 87-88: self.ids_generated += 1; return new_id
Return(t) ==
    /\ pc[t] = "L87"
    /\ ids_generated' = [ids_generated EXCEPT ![obj[t]] = ids_generated[obj[t]] + 1]
    /\ returned' = [returned EXCEPT ![obj[t]] =
            Append(returned[obj[t]],
                   [id |-> new_id[t], t |-> t, r0 |-> entry[t].regs,
                    r1 |-> regs[obj[t]], ts |-> timestamp[t],
                    last |-> last_timestamp[obj[t]],
                    seq |-> sequence[obj[t]]])]
    /\ result' = [result EXCEPT ![t] = "id"]
    /\ pc' = [pc EXCEPT ![t] = "idle"]
    /\ UNCHANGED <<idVars, sequence, last_timestamp, clockVars, obj, timestamp,
                   till_last, till_timestamp, new_id, burst, overlapped, entry, got>>

(***************************************************************************)
(* n calls of _next_id in a row on a fresh instance, all reading the same  *)
(* millisecond c from the clock: the first takes the else branch of line   *)
(* 75 (sequence 0), each later one the branch of line 76 without wrapping  *)
(* (n <= sequence_mask + 1), so they return NewId(c, .., .., k) for        *)
(* k = 0 .. n-1 and leave sequence = n - 1.  The burst brings the sequence *)
(* counter next to its wrap without 4096 separate calls in the history.    *)
(***************************************************************************)
BurstSizes == {sequence_mask, sequence_mask + 1}

Burst(t, i) ==
    /\ pc[t] = "idle"
    /\ status[i] = "ok"
    /\ InFlight(i) = {}
    /\ ids_generated[i] = 0
    /\ burst[i].n = 0
    /\ ~ClockMovedBackwards(last_timestamp[i], clock[i])
    /\ ~SameMillis(last_timestamp[i], clock[i])
    /\ \E n \in BurstSizes :
          /\ sequence' = [sequence EXCEPT ![i] = n - 1]
          /\ ids_generated' = [ids_generated EXCEPT ![i] = n]
          /\ burst' = [burst EXCEPT ![i] =
                  [n |-> n, ts |-> clock[i], regs |-> regs[i]]]
    /\ last_timestamp' = [last_timestamp EXCEPT ![i] = clock[i]]
    /\ obj' = [obj EXCEPT ![t] = i]
    /\ result' = [result EXCEPT ![t] = "id"]
    /\ UNCHANGED <<idVars, clockVars, pc, timestamp, till_last, till_timestamp,
                   new_id, returned, overlapped, entry, got>>

(***************************************************************************)
(* The accessors, lines 93-97 and 113-114.  Each returns a value and       *)
(* assigns nothing.                                                        *)
(***************************************************************************)
\* line 94
get_worker_id(i) == worker_id[i]

\* line 97: self._time_gen()
get_timestamp(i) == clock[i]

\* mutant: the accessor returns the other identity field
get_datacenter_id_Worker(i) == worker_id[i]

\* line 114
get_datacenter_id(i) == data_center_id[i]

GetWorkerId(t, i) ==
    /\ pc[t] = "idle"
    /\ status[i] = "ok"
    /\ got' = [got EXCEPT ![t] =
            [op |-> "get_worker_id", i |-> i, val |-> get_worker_id(i)]]
    /\ UNCHANGED <<idVars, genVars, clockVars, pc, obj, timestamp, till_last,
                   till_timestamp, new_id, result, histVars>>

GetTimestamp(t, i) ==
    /\ pc[t] = "idle"
    /\ status[i] = "ok"
    /\ got' = [got EXCEPT ![t] =
            [op |-> "get_timestamp", i |-> i, val |-> get_timestamp(i)]]
    /\ UNCHANGED <<idVars, genVars, clockVars, pc, obj, timestamp, till_last,
                   till_timestamp, new_id, result, histVars>>

GetDatacenterId(t, i) ==
    /\ pc[t] = "idle"
    /\ status[i] = "ok"
    /\ got' = [got EXCEPT ![t] =
            [op |-> "get_datacenter_id", i |-> i, val |-> get_datacenter_id(i)]]
    /\ UNCHANGED <<idVars, genVars, clockVars, pc, obj, timestamp, till_last,
                   till_timestamp, new_id, result, histVars>>

Next ==
    \/ \E i \in Insts : New(i)
    \/ \E i \in Insts : ClockAdvance(i)
    \/ \E i \in Insts : ClockRegress(i)
    \/ \E t \in Threads, i \in Insts : Call(t, i)
    \/ \E t \in Threads : CheckClock(t)
    \/ \E t \in Threads : TestSameMillis(t)
    \/ \E t \in Threads : IncrementSequence(t)
    \/ \E t \in Threads : TestWrap(t)
    \/ \E t \in Threads : TillSpin(t)
    \/ \E t \in Threads : TillReturn(t)
    \/ \E t \in Threads : ResetSequence(t)
    \/ \E t \in Threads : StoreTimestamp(t)
    \/ \E t \in Threads : Pack(t)
    \/ \E t \in Threads : Return(t)
    \/ \E t \in Threads, i \in Insts : Burst(t, i)

Spec == Init /\ [][Next]_vars

\* one generator called from two threads with no lock around _next_id
InitConc == InitWith({1}, {1, 2}, {0, max_worker_id})

\* no burst and no clock set back: within MaxCalls calls the sequence then
\* never wraps, so the steps of _till_next_millis cannot occur
NextConc ==
    \/ \E i \in Insts : New(i)
    \/ \E i \in Insts : ClockAdvance(i)
    \/ \E t \in Threads, i \in Insts : Call(t, i)
    \/ \E t \in Threads : CheckClock(t)
    \/ \E t \in Threads : TestSameMillis(t)
    \/ \E t \in Threads : IncrementSequence(t)
    \/ \E t \in Threads : TestWrap(t)
    \/ \E t \in Threads : ResetSequence(t)
    \/ \E t \in Threads : StoreTimestamp(t)
    \/ \E t \in Threads : Pack(t)
    \/ \E t \in Threads : Return(t)

SpecConc == InitConc /\ [][NextConc]_vars

\* two generators in one single-threaded process, each with its own clock
InitTwo == InitWith({1, 2}, {1}, {0, max_worker_id})

\* the clocks of the two hosts only advance (the proviso of cross-instance
\* uniqueness), so no call leaves _till_next_millis; the opening burst is
\* taken on instance 1 only, the two instances being interchangeable
NextTwo ==
    \/ \E i \in Insts : New(i)
    \/ \E i \in Insts : ClockAdvance(i)
    \/ \E t \in Threads, i \in Insts : Call(t, i)
    \/ \E t \in Threads : CheckClock(t)
    \/ \E t \in Threads : TestSameMillis(t)
    \/ \E t \in Threads : IncrementSequence(t)
    \/ \E t \in Threads : TestWrap(t)
    \/ \E t \in Threads : TillSpin(t)
    \/ \E t \in Threads : ResetSequence(t)
    \/ \E t \in Threads : StoreTimestamp(t)
    \/ \E t \in Threads : Pack(t)
    \/ \E t \in Threads : Return(t)
    \/ \E t \in Threads : Burst(t, 1)

SpecTwo == InitTwo /\ [][NextTwo]_vars

\* one generator on the event loop, its accessors called between the calls
\* of _next_id; the two identity fields differ, so that what the two
\* identity accessors return can be told apart
InitAcc ==
    /\ InitWith({1}, {1}, {0, max_worker_id})
    /\ args[1][1] # args[1][2]

NextAcc ==
    \/ Next
    \/ \E t \in Threads, i \in Insts : GetWorkerId(t, i)
    \/ \E t \in Threads, i \in Insts : GetTimestamp(t, i)
    \/ \E t \in Threads, i \in Insts : GetDatacenterId(t, i)

SpecAcc == InitAcc /\ [][NextAcc]_vars

\* the constructor alone, over every identity around the 5-bit range
NewInputs == -2 .. max_worker_id + 2

InitNew == InitWith({1}, {1}, NewInputs)

NextNew == \E i \in Insts : New(i)

SpecNew == InitNew /\ [][NextNew]_vars

(***************************************************************************)
(* The identifiers an instance has handed out.                             *)
(***************************************************************************)
\* identifiers returned by the calls recorded one by one
Ids(i) == {returned[i][k].id : k \in DOMAIN returned[i]}

\* first and last identifier of the opening burst: the burst returns
\* NewId(ts, dc, w, k) for k = 0 .. n-1, consecutive integers because the
\* low sequence_bits bits of the other three fields are zero
BurstLo(i) == NewId(burst[i].ts, data_center_id[i], worker_id[i], 0)

BurstHi(i) == NewId(burst[i].ts, data_center_id[i], worker_id[i], burst[i].n - 1)

BurstIds(i) == IF burst[i].n = 0 THEN {} ELSE BurstLo(i) .. BurstHi(i)

\* the fields of an identifier, by the documented shifts
SeqField(id) == id % 4096

WorkerField(id) == Shr(id, 12) % 32

DatacenterField(id) == Shr(id, 17) % 32

TimeField(id) == Shr(id, 22)

\* how many identifiers instance i has returned
NumReturned(i) == burst[i].n + Len(returned[i])

(***************************************************************************)
(* C1  Uniqueness on one instance: while the instance's clock has never    *)
(* moved backwards, all identifiers returned by its calls are pairwise     *)
(* distinct.                                                               *)
(***************************************************************************)
C1_Uniqueness ==
    \A i \in Insts :
        (status[i] = "ok" /\ regs[i] = 0) =>
            /\ \A j, k \in DOMAIN returned[i] :
                  j # k => returned[i][j].id # returned[i][k].id
            /\ Ids(i) \cap BurstIds(i) = {}
            /\ Cardinality(Ids(i) \cup BurstIds(i)) = NumReturned(i)

\* 4095 identifiers in one millisecond, the 4096th in the same millisecond
\* and one more in a later millisecond, the clock never set back
C1_Witness ==
    /\ regs[1] = 0
    /\ burst[1].n = sequence_mask
    /\ Len(returned[1]) = 2
    /\ TimeField(returned[1][1].id) = burst[1].ts - twepoch
    /\ TimeField(returned[1][2].id) > burst[1].ts - twepoch

(***************************************************************************)
(* C2  Monotonicity: of two calls on one instance, the second following    *)
(* the first, with no backward move of the clock from the start of the     *)
(* first to the return of the second, the second returns the strictly      *)
(* greater identifier.                                                     *)
(***************************************************************************)
C2_Monotonic ==
    \A i \in Insts :
        status[i] = "ok" =>
            /\ \A j, k \in DOMAIN returned[i] :
                  (j < k /\ returned[i][j].r0 = returned[i][k].r1)
                      => returned[i][j].id < returned[i][k].id
            /\ \A k \in DOMAIN returned[i] :
                  (burst[i].n > 0 /\ burst[i].regs = returned[i][k].r1)
                      => BurstHi(i) < returned[i][k].id

\* two calls after the clock was set back once, none since: the first in
\* the millisecond the clock was set back to, the second one later
C2_Witness ==
    /\ Len(returned[1]) = 2
    /\ returned[1][1].r0 = 1
    /\ returned[1][2].r1 = 1
    /\ TimeField(returned[1][1].id) < TimeField(returned[1][2].id)

(***************************************************************************)
(* C3  Termination of the sequence-exhaustion wait: once the loop of       *)
(* _till_next_millis has read a clock value past the last_timestamp it     *)
(* was given, the wait can end (the loop is left).                         *)
(***************************************************************************)
C3_WaitEnds ==
    \A t \in Threads :
        (pc[t] = "L62" /\ till_timestamp[t] > till_last[t])
            => ENABLED TillReturn(t)

(***************************************************************************)
(* C4  Clock regression is rejected without side effects: a call that      *)
(* reads now < last_timestamp goes no further than the clock check, ends   *)
(* with InvalidSystemClock, returns no identifier and leaves               *)
(* last_timestamp, sequence and ids_generated as they were.                *)
(***************************************************************************)
C4_RegressionRejected ==
    \A t \in Threads :
        (entry[t].called /\ entry[t].now < entry[t].last) =>
            /\ pc[t] \in {"L70", "idle"}
            /\ pc[t] = "idle" => result[t] = "InvalidSystemClock"
            /\ last_timestamp[obj[t]] = entry[t].last
            /\ sequence[obj[t]] = entry[t].seq
            /\ ids_generated[obj[t]] = entry[t].gen
            /\ Len(returned[obj[t]]) = entry[t].nret

\* a call has just been rejected, after identifiers had been handed out
C4_Witness ==
    /\ pc[1] = "idle"
    /\ result[1] = "InvalidSystemClock"
    /\ entry[1].now < entry[1].last
    /\ Len(returned[1]) > 0
    /\ sequence[1] > 0

CountAt(i, T) ==
    (IF burst[i].n > 0 /\ burst[i].ts - twepoch = T THEN burst[i].n ELSE 0)
    + Cardinality({k \in DOMAIN returned[i] : TimeField(returned[i][k].id) = T})

C6_SequenceBound ==
    \A i \in Insts :
        status[i] = "ok" =>
            /\ \A T \in 0 .. MaxClock : CountAt(i, T) <= 4096
            /\ (burst[i].n = 4096 /\ Len(returned[i]) > 0)
                  => TimeField(returned[i][1].id) # burst[i].ts - twepoch

(***************************************************************************)
(* C7  Construction boundary: __init__ raises InputError exactly when      *)
(* worker_id or data_center_id is negative or greater than 31; otherwise   *)
(* it succeeds with last_timestamp = -1, sequence = 0 and the identity it  *)
(* was given.                                                              *)
(***************************************************************************)
C7_ConstructionBoundary ==
    \A i \in Insts :
        status[i] \in {"ok", "InputError"} =>
            /\ status[i] = "InputError"
                  <=> (\/ args[i][1] < 0 \/ args[i][1] > 31
                       \/ args[i][2] < 0 \/ args[i][2] > 31)
            /\ status[i] = "ok" =>
                  /\ last_timestamp[i] = -1
                  /\ sequence[i] = 0
                  /\ worker_id[i] = args[i][1]
                  /\ data_center_id[i] = args[i][2]

\* New(31, 31) has succeeded
C7_Witness == status[1] = "ok" /\ args[1] = <<31, 31>>

(***************************************************************************)
(* C8  Field round-trip: bits 12..16 of every identifier an instance       *)
(* returns are its worker_id and bits 17..21 its data_center_id.           *)
(***************************************************************************)
C8_FieldRoundTrip ==
    \A i \in Insts :
        status[i] = "ok" =>
            \A id \in Ids(i) \cup (IF burst[i].n = 0 THEN {}
                                   ELSE {BurstLo(i), BurstHi(i)}) :
                /\ WorkerField(id) = worker_id[i]
                /\ DatacenterField(id) = data_center_id[i]

\* worker 31 under datacenter 0 has returned an identifier with the
\* largest sequence number: all ones next to all zeros
C8_Witness ==
    /\ worker_id[1] = 31
    /\ data_center_id[1] = 0
    /\ \E k \in DOMAIN returned[1] : SeqField(returned[1][k].id) = 4095

(***************************************************************************)
(* C9  Cross-instance uniqueness: two instances constructed with           *)
(* different (worker_id, data_center_id) pairs, each on a clock that       *)
(* never moves backwards, never return the same identifier.                *)
(***************************************************************************)
C9_CrossInstance ==
    \A i, j \in Insts :
        (/\ i # j
         /\ status[i] = "ok" /\ status[j] = "ok"
         /\ regs[i] = 0 /\ regs[j] = 0
         /\ <<worker_id[i], data_center_id[i]>> # <<worker_id[j], data_center_id[j]>>)
        =>
            /\ Ids(i) \cap Ids(j) = {}
            /\ burst[j].n > 0 =>
                  \A id \in Ids(i) : id < BurstLo(j) \/ id > BurstHi(j)

\* two instances that differ in the worker id only have each returned an
\* identifier of the same millisecond and sequence number
C9_Witness ==
    /\ status[1] = "ok" /\ status[2] = "ok"
    /\ worker_id[1] # worker_id[2]
    /\ data_center_id[1] = data_center_id[2]
    /\ \E j \in DOMAIN returned[1], k \in DOMAIN returned[2] :
          /\ TimeField(returned[1][j].id) = TimeField(returned[2][k].id)
          /\ SeqField(returned[1][j].id) = SeqField(returned[2][k].id)

(***************************************************************************)
(* C10  Recovery after clock regression: the first call after a rejected   *)
(* one that reads now >= last_timestamp finds last_timestamp, sequence     *)
(* and ids_generated as they were before the rejected call, is not         *)
(* rejected, and what it returns is the identifier that state and its      *)
(* clock reading determine.                                                *)
(***************************************************************************)
ExpectedId(i, now, seq) ==
    (now - twepoch) * 4194304 + data_center_id[i] * 131072
    + worker_id[i] * 4096 + seq

C10_Recovery ==
    \A t \in Threads :
        (entry[t].called /\ entry[t].afterFail /\ entry[t].now >= entry[t].last) =>
            LET e == entry[t]
                i == obj[t]
            IN  /\ e.last = e.blast /\ e.seq = e.bseq /\ e.gen = e.bgen
                /\ result[t] # "InvalidSystemClock"
                /\ (pc[t] = "idle" /\ result[t] = "id") =>
                      /\ Len(returned[i]) = e.nret + 1
                      /\ ids_generated[i] = e.bgen + 1
                      /\ LET id == returned[i][Len(returned[i])].id
                         IN  IF e.now > e.blast
                             THEN sequence[i] = 0 /\ id = ExpectedId(i, e.now, 0)
                             ELSE IF e.bseq < 4095
                             THEN /\ sequence[i] = e.bseq + 1
                                  /\ id = ExpectedId(i, e.now, e.bseq + 1)
                             ELSE sequence[i] = 0 /\ SeqField(id) = 0

\* a call was rejected, the clock came back to the millisecond of
\* last_timestamp, and the next call returned the next sequence number
C10_Witness ==
    /\ pc[1] = "idle"
    /\ result[1] = "id"
    /\ entry[1].afterFail
    /\ entry[1].now = entry[1].last
    /\ sequence[1] = entry[1].bseq + 1

(***************************************************************************)
(* C11  Single failure mode: a call on a constructed instance ends with    *)
(* InvalidSystemClock exactly when the clock value it read on entry is     *)
(* below last_timestamp; a call that read now > last_timestamp or          *)
(* now = last_timestamp (the sequence wrapping or not) gets past the       *)
(* clock check and never raises.                                           *)
(***************************************************************************)
C11_SingleFailureMode ==
    \A t \in Threads :
        entry[t].called =>
            /\ pc[t] = "idle" =>
                  (result[t] = "InvalidSystemClock" <=> entry[t].now < entry[t].last)
            /\ pc[t] \notin {"idle", "L70"} =>
                  /\ entry[t].now >= entry[t].last
                  /\ result[t] = "running"
            /\ result[t] \in {"running", "id", "InvalidSystemClock"}

\* a call that read now = last_timestamp with the sequence at 4095 went
\* through the wait and returned an identifier
C11_Witness ==
    /\ pc[1] = "idle"
    /\ result[1] = "id"
    /\ entry[1].called
    /\ entry[1].now = entry[1].last
    /\ entry[1].seq = 4095

(***************************************************************************)
(* C12  Packing: every identifier returned equals                          *)
(* (now - twepoch) * 2^22 + data_center_id * 2^17 + worker_id * 2^12       *)
(* + sequence, now being the timestamp the call stored into                *)
(* last_timestamp and sequence the counter after the call's update; with   *)
(* now >= twepoch the four fields do not overlap: each is read back from   *)
(* its bit range, and the identifier is non-negative and below             *)
(* (now - twepoch + 1) * 2^22, hence below 2^63 while now - twepoch < 2^41.*)
(***************************************************************************)
C12_Packing ==
    \A i \in Insts :
        status[i] = "ok" =>
            /\ \A k \in DOMAIN returned[i] :
                  LET r == returned[i][k]
                  IN  /\ r.ts = r.last
                      /\ r.id = ExpectedId(i, r.last, r.seq)
                      /\ r.last >= twepoch =>
                            /\ 0 <= r.id
                            /\ r.id < (r.last - twepoch + 1) * 4194304
                            /\ TimeField(r.id) = r.last - twepoch
                            /\ DatacenterField(r.id) = data_center_id[i]
                            /\ WorkerField(r.id) = worker_id[i]
                            /\ SeqField(r.id) = r.seq
            /\ burst[i].n > 0 =>
                  /\ BurstLo(i) = ExpectedId(i, burst[i].ts, 0)
                  /\ BurstHi(i) = ExpectedId(i, burst[i].ts, burst[i].n - 1)
                  /\ 0 <= BurstLo(i)
                  /\ BurstHi(i) < (burst[i].ts - twepoch + 1) * 4194304

\* datacenter 31, worker 31, sequence 4095 in a millisecond after the
\* epoch: every field below the timestamp is all ones
C12_Witness ==
    /\ worker_id[1] = 31
    /\ data_center_id[1] = 31
    /\ \E k \in DOMAIN returned[1] :
          /\ returned[1][k].seq = 4095
          /\ returned[1][k].last > twepoch
          /\ returned[1][k].id = (returned[1][k].last - twepoch + 1) * 4194304 - 1

(***************************************************************************)
(* C13  Per-millisecond pair uniqueness: whatever the clock reports        *)
(* between and during the calls (the wait of _till_next_millis included),  *)
(* every identifier an instance returns carries a (timestamp, sequence)    *)
(* pair that no earlier identifier of the instance carried.                *)
(***************************************************************************)
PairOf(id) == <<TimeField(id), SeqField(id)>>

C13_PairUnique ==
    \A i \in Insts :
        status[i] = "ok" =>
            /\ \A j, k \in DOMAIN returned[i] :
                  j < k => PairOf(returned[i][k].id) # PairOf(returned[i][j].id)
            /\ \A k \in DOMAIN returned[i] :
                  burst[i].n > 0 =>
                      \/ TimeField(returned[i][k].id) # burst[i].ts - twepoch
                      \/ SeqField(returned[i][k].id) >= burst[i].n

(***************************************************************************)
(* C14  Result of the wait: whenever _till_next_millis(last_timestamp)     *)
(* returns, the timestamp it returns is strictly greater than the          *)
(* last_timestamp it was given (and is what _next_id then stores and       *)
(* packs with sequence 0).                                                 *)
(***************************************************************************)
C14_WaitResult ==
    [][\A t \in Threads :
          (pc[t] = "L62" /\ pc'[t] = "L82") =>
              /\ timestamp'[t] > till_last[t]
              /\ sequence'[obj[t]] = 0]_vars

(***************************************************************************)
(* C15  Non-decreasing last_timestamp: on a constructed instance no step   *)
(* of any call, under any behaviour of the clock, lowers last_timestamp.   *)
(***************************************************************************)
C15_LastTimestampMonotone ==
    [][\A i \in Insts :
          (status[i] = "ok" /\ status'[i] = "ok") =>
              last_timestamp'[i] >= last_timestamp[i]]_vars

(***************************************************************************)
(* C16  Sequence discipline: sequence always lies in 0 .. 4095; a call     *)
(* that returned an identifier after reading now > last_timestamp (the     *)
(* first call after construction included) leaves sequence = 0, and one    *)
(* that read now = last_timestamp leaves sequence one more than it found,  *)
(* modulo 4096.                                                            *)
(***************************************************************************)
C16_SequenceDiscipline ==
    /\ \A i \in Insts :
          status[i] = "ok" => sequence[i] \in 0 .. 4095
    /\ \A t \in Threads :
          (entry[t].called /\ pc[t] = "idle" /\ result[t] = "id") =>
              IF entry[t].now > entry[t].last
              THEN sequence[obj[t]] = 0
              ELSE sequence[obj[t]] = (entry[t].seq + 1) % 4096

\* a call found sequence = 4094 in the millisecond of last_timestamp and
\* left the largest sequence number
C16_Witness ==
    /\ pc[1] = "idle"
    /\ result[1] = "id"
    /\ entry[1].called
    /\ entry[1].now = entry[1].last
    /\ entry[1].seq = 4094
    /\ sequence[1] = 4095

(***************************************************************************)
(* C17  The returned identifier matches the stored state: right after a    *)
(* call has returned an identifier, the identifier's timestamp field is    *)
(* last_timestamp - twepoch, its sequence field is sequence, and           *)
(* ids_generated is one more than when the call began.                     *)
(***************************************************************************)
C17_ReturnedMatchesState ==
    \A t \in Threads :
        (pc[t] = "idle" /\ result[t] = "id") =>
            LET i == obj[t]
            IN  IF entry[t].called
                THEN /\ Len(returned[i]) = entry[t].nret + 1
                     /\ TimeField(returned[i][Len(returned[i])].id)
                            = last_timestamp[i] - twepoch
                     /\ SeqField(returned[i][Len(returned[i])].id) = sequence[i]
                     /\ ids_generated[i] = entry[t].gen + 1
                ELSE /\ burst[i].n > 0
                     /\ TimeField(BurstHi(i)) = last_timestamp[i] - twepoch
                     /\ SeqField(BurstHi(i)) = sequence[i]
                     /\ ids_generated[i] = burst[i].n

\* a call that went through the wait has returned: the timestamp it stored
\* and packed is not the one it read on entry
C17_Witness ==
    /\ pc[1] = "idle"
    /\ result[1] = "id"
    /\ entry[1].called
    /\ entry[1].seq = 4095
    /\ last_timestamp[1] # entry[1].now
    /\ ids_generated[1] = 4097

(***************************************************************************)
(* C18  Accessors are read-only: get_worker_id, get_datacenter_id and      *)
(* get_timestamp can always be called on a constructed instance, and a     *)
(* call of one of them leaves worker_id, data_center_id, last_timestamp,   *)
(* sequence and ids_generated as they were; worker_id and data_center_id   *)
(* keep the values given at construction over any sequence of operations, *)
(* so get_worker_id and get_datacenter_id always return those values.      *)
(***************************************************************************)
C18_Accessors ==
    /\ [](\A i \in Insts :
            status[i] = "ok" =>
                /\ worker_id[i] = args[i][1]
                /\ data_center_id[i] = args[i][2]
                /\ \A t \in Threads :
                      pc[t] = "idle" =>
                          /\ ENABLED GetWorkerId(t, i)
                          /\ ENABLED GetDatacenterId(t, i)
                          /\ ENABLED GetTimestamp(t, i))
    /\ [](\A t \in Threads :
            /\ got[t].op = "get_worker_id" => got[t].val = args[got[t].i][1]
            /\ got[t].op = "get_datacenter_id" => got[t].val = args[got[t].i][2])
    /\ [][\A t \in Threads :
            got'[t] # got[t] =>
                /\ UNCHANGED <<worker_id, data_center_id, last_timestamp,
                               sequence, ids_generated>>
                /\ result'[t] = result[t]]_vars

\* get_datacenter_id has returned 31 on worker 0 of datacenter 31, after
\* the instance had handed out identifiers
C18_Witness ==
    /\ args[1] = <<0, 31>>
    /\ got[1] = [op |-> "get_datacenter_id", i |-> 1, val |-> 31]
    /\ Len(returned[1]) = 2
    /\ sequence[1] > 0

====
